---- MODULE Spec2Model ----
(***************************************************************************)
(* Reconciliation and retry engine of the PagerDuty provider: the add-on   *)
(* resource, the service-integration resource and the schedule data        *)
(* source.  One resource instance (the ResourceData `d`) is driven by the  *)
(* orchestrator through Create / Read / Update / Delete / Import / Search; *)
(* every remote call answers with a nondeterministic HTTP status after a   *)
(* nondeterministic latency.  Time is counted in whole seconds.            *)
(***************************************************************************)
EXTENDS Integers, Sequences, FiniteSets, TLC

VARIABLES
    rtype,        \* which resource this instance is: "addon", "integration", "schedule"
    d,            \* *schema.ResourceData: the identity and the fields of the instance
    pc,           \* "idle", "fetch", "create", "search", "import", "done", "discarded"
    op,           \* the operation running or last run
    errCallback,  \* the callback handed to the fetch function
    elapsed,      \* seconds since the current retry loop started
    lastCall,     \* the last remote call of the current operation
    slept,        \* seconds slept after the last remote call
    created,      \* the identities the successful create calls of the operation returned
    ret           \* the error the operation returned (nil on success)

vars == <<rtype, d, pc, op, errCallback, elapsed, lastCall, slept, created, ret>>

----------------------------------------------------------------------------
\* Bounds of the model.

\* a remote call answers at once or after MaxLatency seconds
MaxLatency == 1
Latencies == {0, MaxLatency}
\* an import ID has at most MaxLen characters
MaxLen == 2
\* a schedule listing has at most MaxList entries
MaxList == 2

----------------------------------------------------------------------------
\* Durations, in seconds.

addonFetchTimeout == 120
integrationFetchTimeout == 120
integrationCreateTimeout == 60
scheduleSearchTimeout == 120
ShortDelayZero == 0
ShortDelay == 2
LongDelay == 30

----------------------------------------------------------------------------
\* Errors.  A *pagerduty.Error carries the HTTP status; any other error
\* value (errors.New, fmt.Errorf) does not expose one, `code` then only
\* records where the error came from.

nil == [type |-> "nil", code |-> 0, text |-> "", arg |-> ""]

PagerDutyError(status) ==
    [type |-> "pagerduty.Error", code |-> status, text |-> "http", arg |-> ""]

ErrStatuses == {400, 401, 404, 429, 500}
StatusOK == 200
Statuses == {StatusOK} \cup ErrStatuses

isErrCode(err, code) == err.type = "pagerduty.Error" /\ err.code = code

\* the two error callbacks: each yields the error to go on with and the
\* ResourceData as the callback leaves it
genError(err, dd) ==
    [err |-> [type |-> "error", code |-> err.code, text |-> "Error reading", arg |-> ""],
     d   |-> dd]

handleNotFoundError(err, dd) ==
    IF isErrCode(err, 404)
    THEN [err |-> nil, d |-> [dd EXCEPT !.id = <<>>]]
    ELSE genError(err, dd)

Callbacks == {"genError", "handleNotFoundError"}

ApplyCallback(cb, err, dd) ==
    IF cb = "handleNotFoundError" THEN handleNotFoundError(err, dd)
    ELSE genError(err, dd)

\* what a retried function hands back to resource.Retry
RetryableError(err) == [kind |-> "retryable", err |-> err]
NonRetryableError(err) == [kind |-> "nonretryable", err |-> err]
NoRetryError == [kind |-> "nil", err |-> nil]

\* resource.Retry after the retried function returned `rerr` at time `t` of
\* a window of `timeout` seconds: done or not, and the error returned
Retry(timeout, t, rerr) ==
    IF rerr.kind = "nil" THEN [done |-> TRUE, err |-> nil]
    ELSE IF rerr.kind = "nonretryable" THEN [done |-> TRUE, err |-> rerr.err]
    ELSE [done |-> t >= timeout, err |-> rerr.err]

----------------------------------------------------------------------------
\* Identities are sequences of one-character strings.

EmptyID == <<>>
NewID == <<"n">>
ConfigServiceID == <<"s">>

\* the identities a successful remote create call may answer with
NewIDs == {NewID, <<"m">>}

\* a remote call: the API, the identity it was given, its answer (status, and
\* the resources of the body as a sequence) and its latency
NoBody == <<>>

NoCall == [api |-> "none", id |-> EmptyID, status |-> 0, lat |-> 0, body |-> NoBody]

CallWithBody(api, id, status, lat, body) ==
    [api |-> api, id |-> id, status |-> status, lat |-> lat, body |-> body]

Call(api, id, status, lat) == CallWithBody(api, id, status, lat, NoBody)

EmailType == "generic_email_inbound_integration"
EventsType == "generic_events_api_inbound_integration"

BlankData ==
    [id |-> EmptyID, name |-> "", src |-> "", type |-> "", service |-> EmptyID,
     vendor |-> "", integration_key |-> "", integration_email |-> "", html_url |-> ""]

\* the configurations the orchestrator hands to a fresh instance
AddonConfigs == {[BlankData EXCEPT !.name = "n0", !.src = "s0"]}

IntegrationConfigs ==
    {[BlankData EXCEPT !.name = "n0", !.service = ConfigServiceID, !.type = ty,
                       !.integration_email = em] :
        ty \in {"", EmailType}, em \in {"", "e0"}}

ScheduleConfigs == {[BlankData EXCEPT !.name = "OnCallRotationA"]}

Configs(rt) ==
    IF rt = "addon" THEN AddonConfigs
    ELSE IF rt = "integration" THEN IntegrationConfigs
    ELSE ScheduleConfigs

\* every operation starts with a clean record of remote calls
Begin(name) ==
    /\ op' = name
    /\ elapsed' = 0
    /\ lastCall' = NoCall
    /\ slept' = 0
    /\ created' = <<>>
    /\ ret' = nil

\* an operation that returns
Return(err) ==
    /\ pc' = "done"
    /\ ret' = err

\* the orchestrator takes the result of the operation; the instance is then
\* ready for the next operation
Collect ==
    /\ pc = "done"
    /\ pc' = "idle"
    /\ op' = "none"
    /\ errCallback' = "genError"
    /\ elapsed' = 0
    /\ lastCall' = NoCall
    /\ slept' = 0
    /\ created' = <<>>
    /\ ret' = nil
    /\ UNCHANGED <<rtype, d>>

----------------------------------------------------------------------------
\* Add-on resource.

RemoteAddons == {[Name |-> "rn", Src |-> "rs"], [Name |-> "", Src |-> ""]}

\* the answers of client.Addons.Get: an error status, or an add-on
AddonResponses ==
    {[status |-> st, addon |-> [Name |-> "", Src |-> ""]] : st \in ErrStatuses}
    \cup {[status |-> StatusOK, addon |-> a] : a \in RemoteAddons}

buildAddonStruct(dd) == [Name |-> dd.name, Src |-> dd.src, Type |-> "full_page_addon"]

\* the function fetchPagerDutyAddon hands to resource.Retry: one attempt,
\* given the answer (status, addon) of client.Addons.Get
addonRetryFuncAlwaysRetry(dd, cb, status, addon) ==
    IF status # StatusOK
    THEN [rerr |-> RetryableError(ApplyCallback(cb, PagerDutyError(status), dd).err),
          d |-> ApplyCallback(cb, PagerDutyError(status), dd).d, sleep |-> ShortDelay]
    ELSE [rerr |-> NoRetryError, sleep |-> 0,
          d |-> [dd EXCEPT !.name = addon.Name, !.src = addon.Src]]

addonRetryFunc(dd, cb, status, addon) ==
    IF status # StatusOK
    THEN LET r == ApplyCallback(cb, PagerDutyError(status), dd)
         IN IF r.err # nil
            THEN [rerr |-> RetryableError(r.err), d |-> r.d, sleep |-> ShortDelay]
            ELSE [rerr |-> NoRetryError, d |-> r.d, sleep |-> 0]
    ELSE [rerr |-> NoRetryError, sleep |-> 0,
          d |-> [dd EXCEPT !.name = addon.Name, !.src = addon.Src]]

\* one attempt of the retry loop of fetchPagerDutyAddon
fetchPagerDutyAddon ==
    /\ pc = "fetch"
    /\ rtype = "addon"
    /\ \E resp \in AddonResponses, lat \in Latencies :
        LET r == addonRetryFunc(d, errCallback, resp.status, resp.addon)
            t == elapsed + lat + r.sleep
            out == Retry(addonFetchTimeout, t, r.rerr)
        IN /\ d' = r.d
           /\ elapsed' = t
           /\ slept' = r.sleep
           /\ lastCall' = CallWithBody("Get", d.id, resp.status, lat,
                                     IF resp.status = StatusOK THEN <<resp.addon>> ELSE NoBody)
           /\ IF out.done THEN Return(out.err) ELSE UNCHANGED <<pc, ret>>
    /\ UNCHANGED <<rtype, op, errCallback, created>>

resourcePagerDutyAddonCreateSwallow ==
    /\ pc = "idle"
    /\ rtype = "addon"
    /\ d.id = EmptyID
    /\ op' = "Create"
    /\ elapsed' = 0
    /\ slept' = 0
    /\ \E status \in Statuses, lat \in Latencies, newID \in NewIDs :
        /\ lastCall' = Call("Install", EmptyID, status, lat)
        /\ IF status # StatusOK
           THEN /\ Return(PagerDutyError(status))
                /\ created' = <<>>
                /\ UNCHANGED <<d, errCallback>>
           ELSE /\ d' = [d EXCEPT !.id = newID]
                /\ created' = <<newID>>
                /\ pc' = "fetch"
                /\ errCallback' = "handleNotFoundError"
                /\ ret' = nil
    /\ UNCHANGED rtype

resourcePagerDutyAddonCreate ==
    /\ pc = "idle"
    /\ rtype = "addon"
    /\ d.id = EmptyID
    /\ op' = "Create"
    /\ elapsed' = 0
    /\ slept' = 0
    /\ \E status \in Statuses, lat \in Latencies, newID \in NewIDs :
        /\ lastCall' = Call("Install", EmptyID, status, lat)
        /\ IF status # StatusOK
           THEN /\ Return(PagerDutyError(status))
                /\ created' = <<>>
                /\ UNCHANGED <<d, errCallback>>
           ELSE /\ d' = [d EXCEPT !.id = newID]
                /\ created' = <<newID>>
                /\ pc' = "fetch"
                /\ errCallback' = "genError"
                /\ ret' = nil
    /\ UNCHANGED rtype

resourcePagerDutyAddonRead ==
    /\ pc = "idle"
    /\ rtype = "addon"
    /\ Begin("Read")
    /\ pc' = "fetch"
    /\ errCallback' = "handleNotFoundError"
    /\ UNCHANGED <<rtype, d>>

resourcePagerDutyAddonUpdate ==
    /\ pc = "idle"
    /\ rtype = "addon"
    /\ op' = "Update"
    /\ elapsed' = 0
    /\ slept' = 0
    /\ \E status \in Statuses, lat \in Latencies :
        /\ lastCall' = Call("Update", d.id, status, lat)
        /\ Return(IF status # StatusOK THEN PagerDutyError(status) ELSE nil)
    /\ created' = <<>>
    /\ UNCHANGED <<rtype, d, errCallback>>

resourcePagerDutyAddonDeleteIgnoreError ==
    /\ pc = "idle"
    /\ rtype = "addon"
    /\ op' = "Delete"
    /\ elapsed' = 0
    /\ slept' = 0
    /\ \E status \in Statuses, lat \in Latencies :
        /\ lastCall' = Call("Delete", d.id, status, lat)
        /\ Return(nil)
        /\ d' = [d EXCEPT !.id = EmptyID]
    /\ created' = <<>>
    /\ UNCHANGED <<rtype, errCallback>>

resourcePagerDutyAddonDelete ==
    /\ pc = "idle"
    /\ rtype = "addon"
    /\ op' = "Delete"
    /\ elapsed' = 0
    /\ slept' = 0
    /\ \E status \in Statuses, lat \in Latencies :
        /\ lastCall' = Call("Delete", d.id, status, lat)
        /\ IF status # StatusOK
           THEN /\ Return(PagerDutyError(status))
                /\ UNCHANGED d
           ELSE /\ d' = [d EXCEPT !.id = EmptyID]
                /\ Return(nil)
    /\ created' = <<>>
    /\ UNCHANGED <<rtype, errCallback>>

----------------------------------------------------------------------------
\* Service-integration resource.

errEmailIntegrationMustHaveEmail ==
    [type |-> "error", code |-> 0, arg |-> "",
     text |-> "integration_email attribute must be set for an integration type generic_email_inbound_integration"]

errImportFormat ==
    [type |-> "error", code |-> 0, arg |-> "",
     text |-> "Error importing pagerduty_service_integration. Expecting an importation ID formed as '<service_id>.<integration_id>'"]

NilRef == [isNil |-> TRUE, ID |-> EmptyID]
NilVendor == [isNil |-> TRUE, ID |-> ""]

\* the integrations a successful GetIntegration may answer with
RemoteIntegrations ==
    {[Name |-> "rn", Type |-> EventsType, Service |-> [isNil |-> FALSE, ID |-> ConfigServiceID],
      Vendor |-> [isNil |-> FALSE, ID |-> "rv"], IntegrationKey |-> "rk",
      IntegrationEmail |-> "re", HTMLURL |-> "ru"],
     [Name |-> "rn", Type |-> EmailType, Service |-> [isNil |-> FALSE, ID |-> ConfigServiceID],
      Vendor |-> NilVendor, IntegrationKey |-> "", IntegrationEmail |-> "", HTMLURL |-> "ru"],
     [Name |-> "", Type |-> "", Service |-> NilRef, Vendor |-> NilVendor,
      IntegrationKey |-> "", IntegrationEmail |-> "", HTMLURL |-> ""]}


EmptyIntegration ==
    [Name |-> "", Type |-> "", Service |-> NilRef, Vendor |-> NilVendor,
     IntegrationKey |-> "", IntegrationEmail |-> "", HTMLURL |-> ""]

\* the answers of client.Services.GetIntegration: an error status, or an
\* integration
IntegrationResponses ==
    {[status |-> st, si |-> EmptyIntegration] : st \in ErrStatuses}
    \cup {[status |-> StatusOK, si |-> i] : i \in RemoteIntegrations}

\* the request built without the check of the e-mail address
buildServiceIntegrationStructNoCheck(dd) ==
    [si |-> [Name |-> dd.name,
             Type |-> IF dd.type # "" THEN dd.type ELSE "service_integration",
             Service |-> [isNil |-> FALSE, ID |-> dd.service],
             Vendor |-> IF dd.vendor # "" THEN [isNil |-> FALSE, ID |-> dd.vendor]
                        ELSE NilVendor,
             IntegrationKey |-> dd.integration_key,
             IntegrationEmail |-> dd.integration_email,
             HTMLURL |-> ""],
     err |-> nil]

\* GetOk reports a field as set when its value is not the zero value
buildServiceIntegrationStruct(dd) ==
    LET si == [Name |-> dd.name,
               Type |-> IF dd.type # "" THEN dd.type ELSE "service_integration",
               Service |-> [isNil |-> FALSE, ID |-> dd.service],
               Vendor |-> IF dd.vendor # "" THEN [isNil |-> FALSE, ID |-> dd.vendor]
                          ELSE NilVendor,
               IntegrationKey |-> dd.integration_key,
               IntegrationEmail |-> dd.integration_email,
               HTMLURL |-> ""]
    IN IF si.Type = EmailType /\ si.IntegrationEmail = ""
       THEN [si |-> si, err |-> errEmailIntegrationMustHaveEmail]
       ELSE [si |-> si, err |-> nil]

\* the fields a successful fetch writes back
SetIntegrationFields(dd, si) ==
    [dd EXCEPT !.name = si.Name,
               !.type = si.Type,
               !.service = IF ~si.Service.isNil THEN si.Service.ID ELSE @,
               !.vendor = IF ~si.Vendor.isNil THEN si.Vendor.ID ELSE @,
               !.integration_key = IF si.IntegrationKey # "" THEN si.IntegrationKey ELSE @,
               !.integration_email = IF si.IntegrationEmail # "" THEN si.IntegrationEmail ELSE @,
               !.html_url = IF si.HTMLURL # "" THEN si.HTMLURL ELSE @]

\* the function fetchPagerDutyServiceIntegration hands to resource.Retry
integrationRetryFuncFailFast(dd, cb, status, si) ==
    IF status # StatusOK
    THEN LET r == ApplyCallback(cb, PagerDutyError(status), dd)
         IN IF r.err # nil
            THEN [rerr |-> NonRetryableError(r.err), d |-> r.d, sleep |-> 0]
            ELSE [rerr |-> NoRetryError, d |-> r.d, sleep |-> 0]
    ELSE [rerr |-> NoRetryError, sleep |-> 0, d |-> SetIntegrationFields(dd, si)]

integrationRetryFunc(dd, cb, status, si) ==
    IF status # StatusOK
    THEN LET r == ApplyCallback(cb, PagerDutyError(status), dd)
         IN IF r.err # nil
            THEN [rerr |-> RetryableError(r.err), d |-> r.d, sleep |-> ShortDelay]
            ELSE [rerr |-> NoRetryError, d |-> r.d, sleep |-> 0]
    ELSE [rerr |-> NoRetryError, sleep |-> 0, d |-> SetIntegrationFields(dd, si)]

\* one attempt of the retry loop of fetchPagerDutyServiceIntegration; the
\* service ID is read once before the loop, and `d.service` cannot change
\* while the loop runs
fetchPagerDutyServiceIntegration ==
    /\ pc = "fetch"
    /\ rtype = "integration"
    /\ \E resp \in IntegrationResponses, lat \in Latencies :
        LET r == integrationRetryFunc(d, errCallback, resp.status, resp.si)
            t == elapsed + lat + r.sleep
            out == Retry(integrationFetchTimeout, t, r.rerr)
        IN /\ d' = r.d
           /\ elapsed' = t
           /\ slept' = r.sleep
           /\ lastCall' = CallWithBody("GetIntegration", d.id, resp.status, lat,
                                     IF resp.status = StatusOK THEN <<resp.si>> ELSE NoBody)
           /\ IF out.done THEN Return(out.err) ELSE UNCHANGED <<pc, ret>>
    /\ UNCHANGED <<rtype, op, errCallback, created>>

\* variants of the create function: every error retried; the identity not
\* assigned; a retry asked for after a successful create
createRetryFuncRetryAll(dd, status, newID) ==
    IF status # StatusOK
    THEN [rerr |-> RetryableError(PagerDutyError(status)), d |-> dd, sleep |-> ShortDelay]
    ELSE [rerr |-> NoRetryError, d |-> [dd EXCEPT !.id = newID], sleep |-> 0]

createRetryFuncNoSetId(dd, status, newID) ==
    IF status # StatusOK
    THEN IF isErrCode(PagerDutyError(status), 400)
         THEN [rerr |-> RetryableError(PagerDutyError(status)), d |-> dd, sleep |-> ShortDelay]
         ELSE [rerr |-> NonRetryableError(PagerDutyError(status)), d |-> dd, sleep |-> 0]
    ELSE [rerr |-> NoRetryError, d |-> dd, sleep |-> 0]

createRetryFuncRetryOnSuccess(dd, status, newID) ==
    IF status # StatusOK
    THEN IF isErrCode(PagerDutyError(status), 400)
         THEN [rerr |-> RetryableError(PagerDutyError(status)), d |-> dd, sleep |-> ShortDelay]
         ELSE [rerr |-> NonRetryableError(PagerDutyError(status)), d |-> dd, sleep |-> 0]
    ELSE [rerr |-> RetryableError(PagerDutyError(status)), d |-> [dd EXCEPT !.id = newID],
          sleep |-> ShortDelay]

\* the function resourcePagerDutyServiceIntegrationCreate hands to
\* resource.Retry; the client answers a successful create with an integration
createRetryFunc(dd, status, newID) ==
    IF status # StatusOK
    THEN IF isErrCode(PagerDutyError(status), 400)
         THEN [rerr |-> RetryableError(PagerDutyError(status)), d |-> dd, sleep |-> ShortDelay]
         ELSE [rerr |-> NonRetryableError(PagerDutyError(status)), d |-> dd, sleep |-> 0]
    ELSE [rerr |-> NoRetryError, d |-> [dd EXCEPT !.id = newID], sleep |-> 0]

\* entry of Create: build the request, fail on the validation error
resourcePagerDutyServiceIntegrationCreate ==
    /\ pc = "idle"
    /\ rtype = "integration"
    /\ d.id = EmptyID
    /\ op' = "Create"
    /\ elapsed' = 0
    /\ slept' = 0
    /\ lastCall' = NoCall
    /\ created' = <<>>
    /\ IF buildServiceIntegrationStruct(d).err # nil
       THEN Return(buildServiceIntegrationStruct(d).err)
       ELSE pc' = "create" /\ ret' = nil
    /\ UNCHANGED <<rtype, d, errCallback>>

\* one attempt of the create retry loop; when the loop ends without error
\* Create goes on with the fetch under genError
createIntegrationAttempt ==
    /\ pc = "create"
    /\ rtype = "integration"
    /\ \E status \in Statuses, lat \in Latencies, newID \in NewIDs :
        LET r == createRetryFunc(d, status, newID)
            t == elapsed + lat + r.sleep
            out == Retry(integrationCreateTimeout, t, r.rerr)
        IN /\ d' = r.d
           /\ slept' = r.sleep
           /\ lastCall' = Call("CreateIntegration", d.service, status, lat)
           /\ created' = IF status = StatusOK THEN Append(created, newID) ELSE created
           /\ IF ~out.done
              THEN elapsed' = t /\ UNCHANGED <<pc, ret, errCallback>>
              ELSE IF out.err # nil
              THEN elapsed' = t /\ Return(out.err) /\ UNCHANGED errCallback
              ELSE /\ elapsed' = 0
                   /\ pc' = "fetch"
                   /\ errCallback' = "genError"
                   /\ ret' = nil
    /\ UNCHANGED <<rtype, op>>

resourcePagerDutyServiceIntegrationRead ==
    /\ pc = "idle"
    /\ rtype = "integration"
    /\ Begin("Read")
    /\ pc' = "fetch"
    /\ errCallback' = "handleNotFoundError"
    /\ UNCHANGED <<rtype, d>>

resourcePagerDutyServiceIntegrationUpdateClearOnNotFound ==
    /\ pc = "idle"
    /\ rtype = "integration"
    /\ op' = "Update"
    /\ elapsed' = 0
    /\ slept' = 0
    /\ IF buildServiceIntegrationStruct(d).err # nil
       THEN /\ lastCall' = NoCall
            /\ Return(buildServiceIntegrationStruct(d).err)
            /\ d' = d
       ELSE \E status \in Statuses, lat \in Latencies :
            /\ lastCall' = Call("UpdateIntegration", d.id, status, lat)
            /\ Return(IF status # StatusOK THEN PagerDutyError(status) ELSE nil)
            /\ d' = IF status = 404 THEN [d EXCEPT !.id = EmptyID] ELSE d
    /\ created' = <<>>
    /\ UNCHANGED <<rtype, errCallback>>

resourcePagerDutyServiceIntegrationUpdate ==
    /\ pc = "idle"
    /\ rtype = "integration"
    /\ op' = "Update"
    /\ elapsed' = 0
    /\ slept' = 0
    /\ IF buildServiceIntegrationStruct(d).err # nil
       THEN /\ lastCall' = NoCall
            /\ Return(buildServiceIntegrationStruct(d).err)
       ELSE \E status \in Statuses, lat \in Latencies :
            /\ lastCall' = Call("UpdateIntegration", d.id, status, lat)
            /\ Return(IF status # StatusOK THEN PagerDutyError(status) ELSE nil)
    /\ created' = <<>>
    /\ UNCHANGED <<rtype, d, errCallback>>

resourcePagerDutyServiceIntegrationDeleteClearFirst ==
    /\ pc = "idle"
    /\ rtype = "integration"
    /\ op' = "Delete"
    /\ elapsed' = 0
    /\ slept' = 0
    /\ \E status \in Statuses, lat \in Latencies :
        /\ lastCall' = Call("DeleteIntegration", d.id, status, lat)
        /\ IF status # StatusOK
           THEN /\ Return(PagerDutyError(status))
                /\ d' = [d EXCEPT !.id = EmptyID]
           ELSE /\ d' = [d EXCEPT !.id = EmptyID]
                /\ Return(nil)
    /\ created' = <<>>
    /\ UNCHANGED <<rtype, errCallback>>

resourcePagerDutyServiceIntegrationDelete ==
    /\ pc = "idle"
    /\ rtype = "integration"
    /\ op' = "Delete"
    /\ elapsed' = 0
    /\ slept' = 0
    /\ \E status \in Statuses, lat \in Latencies :
        /\ lastCall' = Call("DeleteIntegration", d.id, status, lat)
        /\ IF status # StatusOK
           THEN /\ Return(PagerDutyError(status))
                /\ UNCHANGED d
           ELSE /\ d' = [d EXCEPT !.id = EmptyID]
                /\ Return(nil)
    /\ created' = <<>>
    /\ UNCHANGED <<rtype, errCallback>>

\* strings.Split: the pieces of s between the occurrences of sep
RECURSIVE Split(_, _)
Split(s, sep) ==
    IF \A i \in 1..Len(s) : s[i] # sep
    THEN <<s>>
    ELSE LET i == CHOOSE k \in 1..Len(s) :
                      s[k] = sep /\ \A j \in 1..(k - 1) : s[j] # sep
         IN <<SubSeq(s, 1, i - 1)>> \o Split(SubSeq(s, i + 1, Len(s)), sep)

IDChars == {"x", "."}
RawIDs == UNION {[1..n -> IDChars] : n \in 0..MaxLen}

\* the orchestrator starts an import on a fresh ResourceData that only
\* carries the raw ID
ImportBegin ==
    /\ pc \in {"idle", "discarded"}
    /\ rtype = "integration"
    /\ Begin("Import")
    /\ pc' = "import"
    /\ \E raw \in RawIDs : d' = [BlankData EXCEPT !.id = raw]
    /\ UNCHANGED <<rtype, errCallback>>

ImportArityAny(ids) == Len(ids) >= 2

ImportArity(ids) == Len(ids) = 2

\* a failed import leaves no instance behind (pc = "discarded")
resourcePagerDutyServiceIntegrationImport ==
    /\ pc = "import"
    /\ rtype = "integration"
    /\ LET ids == Split(d.id, ".")
       IN IF ~ImportArity(ids)
          THEN /\ pc' = "discarded"
               /\ ret' = errImportFormat
               /\ UNCHANGED <<d, lastCall>>
          ELSE \E status \in Statuses, lat \in Latencies :
               /\ lastCall' = Call("GetIntegration", ids[2], status, lat)
               /\ IF status # StatusOK
                  THEN /\ pc' = "discarded"
                       /\ ret' = PagerDutyError(status)
                       /\ UNCHANGED d
                  ELSE /\ d' = [d EXCEPT !.id = ids[2], !.service = ids[1]]
                       /\ Return(nil)
    /\ UNCHANGED <<rtype, op, errCallback, elapsed, slept, created>>

----------------------------------------------------------------------------
\* Schedule data source.

errScheduleNotFound(searchName) ==
    [type |-> "error", code |-> 0, arg |-> searchName,
     text |-> "Unable to locate any schedule with the name: %s"]

Schedules ==
    {[ID |-> <<"1">>, Name |-> "OnCallRotationA"],
     [ID |-> <<"2">>, Name |-> "OnCallRotationAB"],
     [ID |-> <<"3">>, Name |-> "oncallrotationa"],
     [ID |-> <<"4">>, Name |-> "OnCallRotationA"]}

Listings == UNION {[1..n -> Schedules] : n \in 0..MaxList}

\* the answers of client.Schedules.List: an error status, or a listing
ListResponses ==
    {[status |-> st, listing |-> <<>>] : st \in ErrStatuses}
    \cup {[status |-> StatusOK, listing |-> l] : l \in Listings}

\* the position of the last schedule whose name equals the searched name
FirstMatchLast(listing, searchName) ==
    IF \E i \in 1..Len(listing) : listing[i].Name = searchName
    THEN CHOOSE i \in 1..Len(listing) :
            /\ listing[i].Name = searchName
            /\ \A j \in (i + 1)..Len(listing) : listing[j].Name # searchName
    ELSE 0

\* the scan of the listing: the position of the first schedule whose name
\* equals the searched name, 0 when there is none
FirstMatch(listing, searchName) ==
    IF \E i \in 1..Len(listing) : listing[i].Name = searchName
    THEN CHOOSE i \in 1..Len(listing) :
            /\ listing[i].Name = searchName
            /\ \A j \in 1..(i - 1) : listing[j].Name # searchName
    ELSE 0

\* the function dataSourcePagerDutyScheduleRead hands to resource.Retry
scheduleRetryFuncRetryAll(dd, status, listing) ==
    IF status # StatusOK
    THEN [rerr |-> RetryableError(PagerDutyError(status)), d |-> dd, sleep |-> LongDelay]
    ELSE [rerr |-> NoRetryError, d |-> dd, sleep |-> 0]

scheduleRetryFuncNotFoundRetryable(dd, status, listing) ==
    IF status # StatusOK
    THEN IF isErrCode(PagerDutyError(status), 429)
         THEN [rerr |-> RetryableError(PagerDutyError(status)), d |-> dd, sleep |-> LongDelay]
         ELSE [rerr |-> NonRetryableError(PagerDutyError(status)), d |-> dd, sleep |-> 0]
    ELSE LET i == FirstMatch(listing, dd.name)
         IN IF i = 0
            THEN [rerr |-> RetryableError(errScheduleNotFound(dd.name)), d |-> dd,
                  sleep |-> ShortDelay]
            ELSE [rerr |-> NoRetryError, sleep |-> 0,
                  d |-> [dd EXCEPT !.id = listing[i].ID, !.name = listing[i].Name]]

scheduleRetryFunc(dd, status, listing) ==
    IF status # StatusOK
    THEN IF isErrCode(PagerDutyError(status), 429)
         THEN [rerr |-> RetryableError(PagerDutyError(status)), d |-> dd, sleep |-> LongDelay]
         ELSE [rerr |-> NonRetryableError(PagerDutyError(status)), d |-> dd, sleep |-> 0]
    ELSE LET i == FirstMatch(listing, dd.name)
         IN IF i = 0
            THEN [rerr |-> NonRetryableError(errScheduleNotFound(dd.name)), d |-> dd,
                  sleep |-> 0]
            ELSE [rerr |-> NoRetryError, sleep |-> 0,
                  d |-> [dd EXCEPT !.id = listing[i].ID, !.name = listing[i].Name]]

\* entry of the data source's Read: a data source is read into a
\* ResourceData that has no identity yet
dataSourcePagerDutyScheduleRead ==
    /\ pc = "idle"
    /\ rtype = "schedule"
    /\ d.id = EmptyID
    /\ Begin("Search")
    /\ pc' = "search"
    /\ UNCHANGED <<rtype, d, errCallback>>

\* one attempt of the listing retry loop
scheduleListAttempt ==
    /\ pc = "search"
    /\ rtype = "schedule"
    /\ \E resp \in ListResponses, lat \in Latencies :
        LET r == scheduleRetryFunc(d, resp.status, resp.listing)
            t == elapsed + lat + r.sleep
            out == Retry(scheduleSearchTimeout, t, r.rerr)
        IN /\ d' = r.d
           /\ elapsed' = t
           /\ slept' = r.sleep
           /\ lastCall' = CallWithBody("List", EmptyID, resp.status, lat, resp.listing)
           /\ IF out.done THEN Return(out.err) ELSE UNCHANGED <<pc, ret>>
    /\ UNCHANGED <<rtype, op, errCallback, created>>

----------------------------------------------------------------------------
Init ==
    /\ rtype \in {"addon", "integration", "schedule"}
    /\ d \in Configs(rtype)
    /\ pc = "idle"
    /\ op = "none"
    /\ errCallback = "genError"
    /\ elapsed = 0
    /\ lastCall = NoCall
    /\ slept = 0
    /\ created = <<>>
    /\ ret = nil

Next ==
    \/ resourcePagerDutyAddonCreate
    \/ resourcePagerDutyAddonRead
    \/ resourcePagerDutyAddonUpdate
    \/ resourcePagerDutyAddonDelete
    \/ fetchPagerDutyAddon
    \/ resourcePagerDutyServiceIntegrationCreate
    \/ createIntegrationAttempt
    \/ resourcePagerDutyServiceIntegrationRead
    \/ fetchPagerDutyServiceIntegration
    \/ resourcePagerDutyServiceIntegrationUpdate
    \/ resourcePagerDutyServiceIntegrationDelete
    \/ ImportBegin
    \/ resourcePagerDutyServiceIntegrationImport
    \/ dataSourcePagerDutyScheduleRead
    \/ scheduleListAttempt
    \/ Collect

Spec == Init /\ [][Next]_vars

\* the retry loops are the code that runs: a started loop keeps taking attempts
Attempt ==
    \/ fetchPagerDutyAddon
    \/ fetchPagerDutyServiceIntegration
    \/ createIntegrationAttempt
    \/ scheduleListAttempt

FairSpec == Init /\ [][Next]_vars /\ WF_vars(Attempt)

----------------------------------------------------------------------------
\* Vocabulary of the properties.

InLoop == pc \in {"fetch", "create", "search"}
Returned == pc \in {"done", "discarded"}
LoopApis == {"Get", "GetIntegration", "CreateIntegration", "List"}
LoopOps == {"Create", "Read", "Search"}
FetchApis == {"Get", "GetIntegration"}

\* the last remote call was an attempt of a retry loop and answered `status`
LoopAttempt(status) ==
    /\ op \in LoopOps
    /\ lastCall.api \in LoopApis
    /\ lastCall.status = status

WindowOf(api) ==
    IF api = "Get" THEN addonFetchTimeout
    ELSE IF api = "GetIntegration" THEN integrationFetchTimeout
    ELSE IF api = "CreateIntegration" THEN integrationCreateTimeout
    ELSE scheduleSearchTimeout

\* number of '.' in an identity
Dots(s) == Cardinality({i \in 1..Len(s) : s[i] = "."})

\* the error a fetch reports for a failed Get
FetchError(status) ==
    [type |-> "error", code |-> status, text |-> "Error reading", arg |-> ""]

----------------------------------------------------------------------------
\* C1: a plain Read (add-on, service integration) of an instance with an
\* identity whose Get attempt answers 404 has ended on that attempt: the
\* loop is left, no error is returned and the identity is empty.
C1_ReadNotFoundClearsIdentity ==
    (op = "Read" /\ lastCall.api \in FetchApis /\ lastCall.status = 404
        /\ lastCall.id # EmptyID)
    => (pc = "done" /\ ret = nil /\ d.id = EmptyID)

C1_Witness ==
    /\ op = "Read" /\ lastCall.api \in FetchApis /\ lastCall.status = 404
    /\ lastCall.id # EmptyID /\ elapsed >= ShortDelay
    /\ pc = "done" /\ d.id = EmptyID

\* C2 (as claimed): a Delete whose remote delete call answers 404 returns
\* success and leaves the identity empty.
C2_DeleteAbsentSucceeds ==
    (pc = "done" /\ op = "Delete" /\ lastCall.status = 404)
    => (ret = nil /\ d.id = EmptyID)

\* C3: Create returns success only after a Fetch attempt that succeeded;
\* a Create that returns after a failed Fetch attempt returns that Fetch
\* error, and only once the window of the fetch is exhausted.
C3_CreateSurfacesFetchError ==
    /\ (pc = "done" /\ op = "Create" /\ ret = nil)
        => (lastCall.api \in FetchApis /\ lastCall.status = StatusOK)
    /\ (pc = "done" /\ op = "Create" /\ lastCall.api \in FetchApis
            /\ lastCall.status # StatusOK)
        => (ret = FetchError(lastCall.status) /\ elapsed >= WindowOf(lastCall.api))

C3_Witness ==
    /\ pc = "done" /\ op = "Create" /\ lastCall.api \in FetchApis
    /\ lastCall.status = 404 /\ ret = FetchError(404)
    /\ elapsed >= WindowOf(lastCall.api)

\* C4 (as claimed): after an attempt of a retry loop answered 429 the long
\* delay has been slept, and the loop goes on unless its window is exhausted.
C4_RateLimitedLongDelay ==
    LoopAttempt(429)
    => (slept >= LongDelay /\ (InLoop \/ elapsed >= WindowOf(lastCall.api)))

\* C5: an operation that returned success although its last remote call
\* failed is a plain Read whose Get answered 404.
C5_OnlyReadNotFoundSwallowed ==
    (Returned /\ ret = nil /\ lastCall.api # "none" /\ lastCall.status # StatusOK)
    => (op = "Read" /\ lastCall.api \in FetchApis /\ lastCall.status = 404)

C5_Witness ==
    /\ Returned /\ ret = nil /\ op = "Read"
    /\ lastCall.api = "GetIntegration" /\ lastCall.status = 404

\* C6 (as claimed): an attempt of any retry loop that answered 401 ended the
\* operation at once with an error, without a delay.
C6_PermanentEndsEveryLoop ==
    LoopAttempt(401) => (pc = "done" /\ slept = 0 /\ ret # nil)

\* C6 (amended): in the create loop of the service integration and in the
\* schedule search a 401 ends the operation on that attempt with that error
\* and without a delay; in a fetch a 401 is followed by the short delay and,
\* while the window is open, by another attempt, and the fetch returns the
\* error only when the window is exhausted.
C6_PermanentEndsCreateAndSearch ==
    /\ (LoopAttempt(401) /\ lastCall.api \in {"CreateIntegration", "List"})
        => (pc = "done" /\ slept = 0 /\ ret = PagerDutyError(401))
    /\ (LoopAttempt(401) /\ lastCall.api \in FetchApis)
        => /\ slept = ShortDelay
           /\ (pc = "fetch") = (elapsed < WindowOf(lastCall.api))
           /\ (pc # "fetch") => (pc = "done" /\ ret = FetchError(401))

C6_Witness ==
    /\ LoopAttempt(401) /\ lastCall.api \in {"CreateIntegration", "List"}
    /\ pc = "done" /\ ret = PagerDutyError(401)

\* C7 (as claimed): an attempt of any retry loop that answered 500 while the
\* window was still open is followed by another attempt.
C7_ServerErrorRetried ==
    (LoopAttempt(500) /\ elapsed < WindowOf(lastCall.api)) => InLoop

\* C8: every started retry loop returns, and a loop that returns after a
\* failed attempt returns the error of that attempt.
C8_LoopsTerminate ==
    /\ InLoop ~> (pc = "done")
    /\ [](\A st \in ErrStatuses :
            (LoopAttempt(st) /\ Returned /\ ret # nil)
            => ret \in {PagerDutyError(st), FetchError(st)})

C8_Witness ==
    /\ LoopAttempt(429) /\ op = "Search" /\ pc = "done"
    /\ ret = PagerDutyError(429) /\ elapsed >= scheduleSearchTimeout

\* C9 (as claimed): a retry loop that returns a failure does so no later
\* than its window plus the latency of its last remote call.
C9_FailureWithinWindow ==
    (\E st \in ErrStatuses : LoopAttempt(st) /\ Returned /\ ret # nil)
    => elapsed <= WindowOf(lastCall.api) + lastCall.lat

\* C10: an Import whose raw ID does not hold exactly one '.' returns the
\* format error, issues no remote call and leaves the identity and the
\* service field as they were.
C10_ImportRejectsBadArity ==
    [][(pc = "import" /\ Dots(d.id) # 1)
        => (/\ pc' = "discarded"
            /\ ret' = errImportFormat
            /\ lastCall' = NoCall
            /\ d'.id = d.id
            /\ d'.service = d.service)]_vars

C10_Witness ==
    /\ op = "Import" /\ pc = "discarded" /\ ret = errImportFormat
    /\ Dots(d.id) >= 2 /\ lastCall = NoCall

CreateApis == {"Install", "CreateIntegration"}

\* the last remote call was a successful listing of a schedule search
Listed == op = "Search" /\ lastCall.api = "List" /\ lastCall.status = StatusOK

\* C11: a schedule search whose listing succeeded without a schedule of
\* exactly the searched name has ended on that attempt with the error that
\* names the searched value, and the identity is unset.
C11_SearchNoMatchFails ==
    (Listed /\ \A i \in 1..Len(lastCall.body) : lastCall.body[i].Name # d.name)
    => (/\ pc = "done"
        /\ ret.type = "error"
        /\ ret.text = "Unable to locate any schedule with the name: %s"
        /\ ret.arg = d.name
        /\ d.id = EmptyID)

C11_Witness ==
    /\ Listed /\ Len(lastCall.body) = 2
    /\ \A i \in 1..Len(lastCall.body) : lastCall.body[i].Name # d.name
    /\ pc = "done" /\ ret.arg = "OnCallRotationA" /\ d.id = EmptyID

\* C12: a schedule search whose listing succeeded with a schedule of exactly
\* the searched name has succeeded, and the identity is that of the first
\* such schedule of the listing.
C12_SearchSelectsFirstExactMatch ==
    (Listed /\ \E i \in 1..Len(lastCall.body) : lastCall.body[i].Name = d.name)
    => (/\ pc = "done"
        /\ ret = nil
        /\ \E i \in 1..Len(lastCall.body) :
            /\ lastCall.body[i].Name = d.name
            /\ \A j \in 1..(i - 1) : lastCall.body[j].Name # d.name
            /\ d.id = lastCall.body[i].ID)

C12_Witness ==
    /\ Listed /\ Len(lastCall.body) = 2 /\ pc = "done" /\ ret = nil
    /\ lastCall.body[1].Name = "oncallrotationa"
    /\ lastCall.body[2].Name = "OnCallRotationA"
    /\ d.name = "OnCallRotationA"
    /\ d.id = lastCall.body[2].ID

\* C13: a Create of a service integration of the e-mail type without an
\* e-mail address returns the validation error at once, without a remote
\* call, and leaves the instance (its empty identity included) as it was.
C13_EmailValidationBeforeNetwork ==
    [][(/\ pc = "idle" /\ rtype = "integration" /\ op' = "Create"
        /\ d.type = EmailType /\ d.integration_email = "")
        => (/\ pc' = "done"
            /\ ret' = errEmailIntegrationMustHaveEmail
            /\ lastCall' = NoCall
            /\ created' = <<>>
            /\ d' = d
            /\ d'.id = EmptyID)]_vars

C13_Witness ==
    /\ rtype = "integration" /\ op = "Create" /\ pc = "done"
    /\ d.type = EmailType /\ d.integration_email = ""
    /\ ret = errEmailIntegrationMustHaveEmail /\ lastCall = NoCall /\ d.id = EmptyID

\* C14 (as claimed): a successful fetch leaves every field as it was whose
\* value in the fetched resource is empty or absent.
C14_EmptyRemoteFieldsKept ==
    [][(pc = "fetch" /\ pc' = "done" /\ lastCall'.status = StatusOK)
        => IF rtype = "addon"
           THEN /\ (lastCall'.body[1].Name = "" => d'.name = d.name)
                /\ (lastCall'.body[1].Src = "" => d'.src = d.src)
           ELSE /\ (lastCall'.body[1].Name = "" => d'.name = d.name)
                /\ (lastCall'.body[1].Type = "" => d'.type = d.type)
                /\ (lastCall'.body[1].Service.isNil => d'.service = d.service)
                /\ (lastCall'.body[1].Vendor.isNil => d'.vendor = d.vendor)
                /\ (lastCall'.body[1].IntegrationKey = ""
                        => d'.integration_key = d.integration_key)
                /\ (lastCall'.body[1].IntegrationEmail = ""
                        => d'.integration_email = d.integration_email)
                /\ (lastCall'.body[1].HTMLURL = "" => d'.html_url = d.html_url)]_vars

\* C15: in the Create of a service integration a create call that answered
\* 400 is followed by the short delay and, while the one-minute window is
\* open, by another create call; a create call that answered another error
\* ended Create on that attempt with that error; in both cases the identity
\* is empty and no fetch was made.
C15_CreateRetriesOnly400 ==
    (op = "Create" /\ lastCall.api = "CreateIntegration" /\ lastCall.status # StatusOK)
    => /\ d.id = EmptyID
       /\ created = <<>>
       /\ pc \in {"create", "done"}
       /\ IF lastCall.status = 400
          THEN /\ slept = ShortDelay
               /\ (pc = "create") = (elapsed < integrationCreateTimeout)
               /\ (pc = "done") => ret = PagerDutyError(400)
          ELSE /\ slept = 0
               /\ pc = "done"
               /\ ret = PagerDutyError(lastCall.status)

C15_Witness ==
    /\ op = "Create" /\ lastCall.api = "CreateIntegration" /\ lastCall.status = 400
    /\ pc = "done" /\ ret = PagerDutyError(400) /\ elapsed >= integrationCreateTimeout
    /\ d.id = EmptyID

C17_UpdateSingleCallNoChange ==
    [][op' = "Update"
        => (/\ pc' = "done"
            /\ d' = d
            /\ lastCall'.api \in {"Update", "UpdateIntegration", "none"}
            /\ (lastCall'.api # "none" /\ lastCall'.status # StatusOK)
                => ret' = PagerDutyError(lastCall'.status)
            /\ (lastCall'.api # "none" /\ lastCall'.status = StatusOK)
                => ret' = nil)]_vars

C17_Witness ==
    /\ op = "Update" /\ pc = "done" /\ lastCall.api = "UpdateIntegration"
    /\ lastCall.status = 404 /\ ret = PagerDutyError(404) /\ d.id # EmptyID

\* C18: an operation has at most one successful remote create call; after
\* it the operation is in the fetch or has returned, also when fetch
\* attempts failed and were retried.
C18_AtMostOneCreate ==
    /\ Len(created) <= 1
    /\ (Len(created) = 1) => (op = "Create" /\ pc \in {"fetch", "done"})
    /\ (lastCall.api \in CreateApis /\ lastCall.status = StatusOK) => pc = "fetch"

C18_Witness ==
    /\ op = "Create" /\ Len(created) = 1 /\ pc = "done" /\ ret # nil
    /\ lastCall.api = "GetIntegration" /\ lastCall.status = 500
    /\ elapsed >= integrationFetchTimeout

====
